---- MODULE Spec2Model ----
(***************************************************************************)
(* The grading engine of evaluator.py: the test case filter, the runtime   *)
(* version probe, the grading loop of run_python_code, the driver loop of  *)
(* main and the aggregation of count_passed_problems.                      *)
(*                                                                         *)
(* Texts are sequences of one-character strings, so that the substring     *)
(* test, the line splitting and the whitespace trimming of the source are  *)
(* computed character by character.                                        *)
(***************************************************************************)
EXTENDS Integers, Sequences, FiniteSets, TLC

(***************************************************************************)
(* Text primitives of Python used by the source.                           *)
(***************************************************************************)

\* str.isspace for the characters of the model's alphabet
IsSpace(c) == c \in {" ", "\t", "\n", "\r"}

RECURSIVE LStrip(_)
\* str.lstrip()
LStrip(s) ==
  IF s = <<>> THEN <<>>
  ELSE IF IsSpace(Head(s)) THEN LStrip(Tail(s)) ELSE s

RECURSIVE RStrip(_)
\* str.rstrip()
RStrip(s) ==
  IF s = <<>> THEN <<>>
  ELSE IF IsSpace(s[Len(s)]) THEN RStrip(SubSeq(s, 1, Len(s) - 1)) ELSE s

\* str.strip()
Strip(s) == LStrip(RStrip(s))

RECURSIVE ReplaceCRLF(_)
\* str.replace("\r\n", "\n")
ReplaceCRLF(s) ==
  IF s = <<>> THEN <<>>
  ELSE IF Len(s) >= 2 /\ s[1] = "\r" /\ s[2] = "\n"
       THEN <<"\n">> \o ReplaceCRLF(SubSeq(s, 3, Len(s)))
       ELSE <<Head(s)>> \o ReplaceCRLF(Tail(s))

RECURSIVE ReplaceCR(_)
\* str.replace("\r", "\n")
ReplaceCR(s) ==
  IF s = <<>> THEN <<>>
  ELSE <<IF Head(s) = "\r" THEN "\n" ELSE Head(s)>> \o ReplaceCR(Tail(s))

RECURSIVE SplitLF(_)
\* str.split("\n"): always at least one (possibly empty) piece
SplitLF(s) ==
  IF \A i \in 1..Len(s) : s[i] # "\n" THEN <<s>>
  ELSE LET k == CHOOSE i \in 1..Len(s) :
                  s[i] = "\n" /\ \A j \in 1..(i - 1) : s[j] # "\n"
       IN  <<SubSeq(s, 1, k - 1)>> \o SplitLF(SubSeq(s, k + 1, Len(s)))

RECURSIVE Join(_, _)
\* sep.join(parts)
Join(sep, parts) ==
  IF parts = <<>> THEN <<>>
  ELSE IF Len(parts) = 1 THEN parts[1]
  ELSE parts[1] \o sep \o Join(sep, Tail(parts))

RECURSIVE SplitWS(_)
\* str.split(): the maximal runs of non-whitespace characters
SplitWS(s) ==
  LET t == LStrip(s) IN
  IF t = <<>> THEN <<>>
  ELSE IF \A i \in 1..Len(t) : ~IsSpace(t[i]) THEN <<t>>
  ELSE LET k == CHOOSE i \in 1..Len(t) :
                  IsSpace(t[i]) /\ \A j \in 1..(i - 1) : ~IsSpace(t[j])
       IN  <<SubSeq(t, 1, k - 1)>> \o SplitWS(SubSeq(t, k + 1, Len(t)))

\* `sub in s` for texts
Contains(sub, s) ==
  \E i \in 1..(Len(s) - Len(sub) + 1) : SubSeq(s, i, i + Len(sub) - 1) = sub

(***************************************************************************)
(* float(token) and the "%.6f" rendering, for the decimal literals that    *)
(* the model's alphabet can spell: an optional sign, digits and at most    *)
(* one point.  The texts of the model hold no letter of "inf", "nan" or   *)
(* an exponent and no digit 5, so no literal lies exactly half way between *)
(* two six-place values (where the binary value of the float would decide),*)
(* and at most nine digits on each side of the point.                      *)
(***************************************************************************)
Digits == {"0", "1", "2", "3", "4", "5", "6", "7", "8", "9"}

DigitVal ==
  [c \in Digits |->
     CASE c = "0" -> 0 [] c = "1" -> 1 [] c = "2" -> 2 [] c = "3" -> 3
       [] c = "4" -> 4 [] c = "5" -> 5 [] c = "6" -> 6 [] c = "7" -> 7
       [] c = "8" -> 8 [] c = "9" -> 9]

DigitChar == [d \in 0..9 |-> CHOOSE c \in Digits : DigitVal[c] = d]

RECURSIVE Pow10(_)
Pow10(n) == IF n = 0 THEN 1 ELSE 10 * Pow10(n - 1)

RECURSIVE ToInt(_)
\* the value of a (possibly empty) run of digits
ToInt(ds) ==
  IF ds = <<>> THEN 0 ELSE 10 * ToInt(SubSeq(ds, 1, Len(ds) - 1)) + DigitVal[ds[Len(ds)]]

RECURSIVE IntToStr(_)
IntToStr(n) ==
  IF n < 10 THEN <<DigitChar[n]>> ELSE IntToStr(n \div 10) \o <<DigitChar[n % 10]>>

\* the token without its sign
Unsigned(token) ==
  IF token # <<>> /\ Head(token) \in {"-", "+"} THEN Tail(token) ELSE token

\* the digits before the point
IntPart(token) ==
  LET u == Unsigned(token) IN
  IF \E i \in 1..Len(u) : u[i] = "."
  THEN SubSeq(u, 1, (CHOOSE i \in 1..Len(u) : u[i] = ".") - 1)
  ELSE u

\* the digits after the point
FracPart(token) ==
  LET u == Unsigned(token) IN
  IF \E i \in 1..Len(u) : u[i] = "."
  THEN SubSeq(u, (CHOOSE i \in 1..Len(u) : u[i] = ".") + 1, Len(u))
  ELSE <<>>

\* float(token) does not raise ValueError
IsFloat(token) ==
  LET u == Unsigned(token) IN
  /\ \A i \in 1..Len(u) : u[i] \in Digits \cup {"."}
  /\ Cardinality({i \in 1..Len(u) : u[i] = "."}) <= 1
  /\ \E i \in 1..Len(u) : u[i] \in Digits

\* abs(val) < 1e-9
IsTiny(token) ==
  LET fp == FracPart(token)
      m  == ToInt(IntPart(token) \o fp)
  IN  m = 0 \/ (Len(fp) > 9 /\ m < Pow10(Len(fp) - 9))

\* f"{val:.6f}": the digits after the sixth round the sixth, with a carry into
\* the integer part
Format6(token) ==
  LET fp    == FracPart(token)
      kept  == IF Len(fp) >= 6 THEN SubSeq(fp, 1, 6)
               ELSE fp \o [k \in 1..(6 - Len(fp)) |-> "0"]
      rest  == IF Len(fp) > 6 THEN SubSeq(fp, 7, Len(fp)) ELSE <<>>
      up    == IF 2 * ToInt(rest) > Pow10(Len(rest)) THEN 1 ELSE 0
      micro == ToInt(kept) + up
      carry == IF micro = Pow10(6) THEN 1 ELSE 0
      frac  == IntToStr(micro - carry * Pow10(6))
      zeros == [k \in 1..(6 - Len(frac)) |-> "0"]
  IN  (IF Head(token) = "-" THEN <<"-">> ELSE <<>>)
        \o IntToStr(ToInt(IntPart(token)) + carry) \o <<".">> \o zeros \o frac

(***************************************************************************)
(* evaluator.py: the text functions                                        *)
(***************************************************************************)

\* lines 16-24: one token
clean_token(token) ==
  IF IsFloat(token)
  THEN IF IsTiny(token) THEN <<"0", ".", "0", "0", "0", "0", "0", "0">>
       ELSE Format6(token)
  ELSE token

\* lines 14-25: one line
clean_line(line) ==
  LET tokens == SplitWS(Strip(line))
  IN  Join(<<" ">>, [k \in 1..Len(tokens) |-> clean_token(tokens[k])])

\* lines 9-26
clean_float_output(output) ==
  LET lines == SplitLF(Strip(output))
  IN  Join(<<"\n">>, [k \in 1..Len(lines) |-> clean_line(lines[k])])

\* lines 28-40
preprocess_input(raw_input) ==
  LET input_data == Strip(ReplaceCR(ReplaceCRLF(Join(<<"\n">>, raw_input))))
      split      == SplitLF(input_data)
      lines      == [k \in 1..Len(split) |-> Strip(split[k])]
  IN  Join(<<"\n">>, lines) \o <<"\n">>

\* lines 43-46
normalize_output(output) ==
  LET lines == SplitLF(Strip(ReplaceCRLF(output)))
  IN  clean_float_output(Join(<<"\n">>, [k \in 1..Len(lines) |-> RStrip(lines[k])]))

(***************************************************************************)
(* Literal texts of the source                                             *)
(***************************************************************************)
PASSED == <<"P", "A", "S", "S", "E", "D">>

FAILED == <<"F", "A", "I", "L", "E", "D">>

\* the prefix of f"ERROR: {error_output}", lines 110 and 127
ERROR_PREFIX == <<"E", "R", "R", "O", "R", ":", " ">>

\* the prefix of f"Error: {e}", line 172
EXC_PREFIX == <<"E", "r", "r", "o", "r", ":", " ">>

\* line 169
TIMEOUT_MSG ==
  EXC_PREFIX \o
  <<"E", "x", "e", "c", "u", "t", "i", "o", "n", " ", "t", "i", "m", "e", "d", " ",
    "o", "u", "t", ".", " ", "C", "h", "e", "c", "k", " ", "i", "n", "p", "u", "t", " ",
    "f", "o", "r", "m", "a", "t", "t", "i", "n", "g", ".">>

\* the truncation mark of line 56
SENTINEL == <<".", ".", ".">>

\* Python's None: no text of the model is this value
None == <<"<None>">>

(***************************************************************************)
(* Bounds and the inputs drawn within them                                 *)
(***************************************************************************)
\* items of inference_data
MaxItems == 2

\* test cases of the item of one submission
MaxCases == 3

\* test cases of each item the driver grades
MaxItemCases == 2

\* submissions whose source text cannot be written to the temporary file
MaxWriteFaults == 1

\* lines of a results file given to count_passed_problems
MaxRecords == 2

\* a code point that UTF-8 cannot encode (a lone surrogate); json.loads yields
\* one from the escape \ud800
SURROGATE == "U+D800"

\* the test cases of the model: plain; with two accepted outputs and two dots at
\* the end of one input line and one at the start of the next; with a truncated
\* input line; with a truncated accepted output
PlainCase == [input |-> << <<"1">> >>, output |-> << <<"a", "\n">> >>]

TwoAnswerCase ==
  [input |-> << <<"2", ".", ".">>, <<".", "3", " ">> >>,
   output |-> << <<"b">>, <<"a", " ">> >>]

TruncatedInputCase ==
  [input |-> << <<"1">>, <<"4", ".", ".", ".">> >>, output |-> << <<"a">> >>]

TruncatedOutputCase ==
  [input |-> << <<"1">> >>, output |-> << <<"a">>, <<".", ".", ".", ".", "b">> >>]

RECURSIVE SeqsUpTo(_, _)
\* the sequences over S of length at most n
SeqsUpTo(S, n) ==
  IF n = 0 THEN {<<>>}
  ELSE LET shorter == SeqsUpTo(S, n - 1)
       IN  shorter \cup {Append(q, x) : q \in {r \in shorter : Len(r) = n - 1}, x \in S}

\* The inputs of one specification: the test cases, src_uids and difficulties of
\* the items, the "version" and "target code" of the candidates, what a finished
\* process may have written to stdout and stderr, and the texts of the exceptions
\* subprocess.run may raise.
SubmissionEnv ==
  [cases        |-> {PlainCase, TwoAnswerCase, TruncatedInputCase, TruncatedOutputCase},
   uids         |-> {"u1"},
   difficulties |-> {1500},
   langs        |-> {"python3", "python2", "Python 3"},
   sources      |-> {<<"p">>, <<"p", SURROGATE>>},
   stdout       |-> {<<"a", "\n">>, <<"b">>},
   stderr       |-> {<<>>, <<"w", "\n">>},
   exceptions   |-> {<<>>, <<"x">>}]

\* test cases around the truncation mark, for the filter alone: two dots, dots
\* that are not adjacent, dots split over two lines or over input and output,
\* the mark alone, four dots, the mark in the second line or second output,
\* and a case with no input line
FilterEnv ==
  [cases        |-> {PlainCase, TwoAnswerCase, TruncatedInputCase, TruncatedOutputCase,
                     [input |-> << <<".", ".">> >>, output |-> << <<".">> >>],
                     [input |-> << <<".", "a", ".", ".">> >>, output |-> << <<"a">> >>],
                     [input |-> << <<".", ".", ".">> >>, output |-> << <<"a">> >>],
                     [input |-> << >>, output |-> << <<"a", ".", ".", ".">> >>],
                     [input |-> << >>, output |-> << <<".", ".">>, <<".", "a">> >>]},
   uids         |-> {"u1"},
   difficulties |-> {1500},
   langs        |-> {"python3"},
   sources      |-> {<<"p">>},
   stdout       |-> {<<"a">>},
   stderr       |-> {<<>>},
   exceptions   |-> {}]

\* for count_passed_problems alone: two problems, a difficulty on each side of
\* each bar
AggregateEnv ==
  [cases        |-> {PlainCase},
   uids         |-> {"u1", "u2"},
   difficulties |-> {1500, 1501, 2700, 2701},
   langs        |-> {"python3"},
   sources      |-> {<<"p">>},
   stdout       |-> {<<"a">>, <<"b">>},
   stderr       |-> {<<>>},
   exceptions   |-> {}]

DriverEnv ==
  [cases        |-> {PlainCase, TruncatedInputCase},
   uids         |-> {"u1", "u2"},
   difficulties |-> {1500},
   langs        |-> {"python3"},
   sources      |-> {<<"p">>, <<"p", SURROGATE>>},
   stdout       |-> {<<"a", "\n">>, <<"b">>},
   stderr       |-> {<<>>},
   exceptions   |-> {}]

(***************************************************************************)
(* execute_command, lines 152-172.  The process is the environment: its    *)
(* result is any of the results the function can hand back.                *)
(***************************************************************************)
\* line 166
Completed(stdout, stderr) == <<Strip(stdout), Strip(stderr)>>

\* lines 168-169
TimedOut == <<None, TIMEOUT_MSG>>

\* lines 171-172 with str(e) alone as the error text
Raised_bare(e) == <<None, e>>

\* lines 171-172
Raised(e) == <<None, EXC_PREFIX \o e>>

\* the results execute_command can hand back in environment e
execute_command(e) ==
  {Completed(out, err) : out \in e.stdout, err \in e.stderr}
    \cup {TimedOut} \cup {Raised(x) : x \in e.exceptions}

(***************************************************************************)
(* run_python_code: the pure parts                                         *)
(***************************************************************************)
\* '...' in text
HasSentinel(text) == Contains(SENTINEL, text)

\* any('...' in text for text in texts)
AnyHasSentinel(texts) == \E k \in 1..Len(texts) : HasSentinel(texts[k])

\* the test of line 56 with the input lines forgotten
is_truncated_outputs_only(testcase) == AnyHasSentinel(testcase.output)

\* line 56: the test case is skipped
is_truncated(testcase) ==
  AnyHasSentinel(testcase.output) \/ AnyHasSentinel(testcase.input)

RECURSIVE filter_testcases(_)
\* lines 54-59
filter_testcases(cases) ==
  IF cases = <<>> THEN <<>>
  ELSE IF is_truncated(Head(cases)) THEN filter_testcases(Tail(cases))
       ELSE <<Head(cases)>> \o filter_testcases(Tail(cases))

\* line 64 with the two candidates swapped
tried_versions_other_first(lang) ==
  <<IF lang = "python3" THEN "python2" ELSE "python3", lang>>

\* line 64 with the declared version tried once more after the other one
tried_versions_declared_again(lang) ==
  <<lang, IF lang = "python3" THEN "python2" ELSE "python3", lang>>

\* line 64
tried_versions(lang) == <<lang, IF lang = "python3" THEN "python2" ELSE "python3">>

\* lines 84-87 and 120-123: the interpreter run for a version
interpreter(version) == IF version = "python2" THEN "python2" ELSE "python"

\* line 129
matches(actual, expected_outputs) ==
  \E k \in 1..Len(expected_outputs) :
    normalize_output(actual) = normalize_output(expected_outputs[k])

\* lines 126-132 with the output compared before the error text is looked at
verdict_of_output_first(actual, error, expected_outputs) ==
  IF matches(actual, expected_outputs) THEN PASSED
  ELSE IF error # <<>> THEN ERROR_PREFIX \o error
  ELSE FAILED

\* lines 126-132
verdict_of(actual, error, expected_outputs) ==
  IF error # <<>> THEN ERROR_PREFIX \o error
  ELSE IF matches(actual, expected_outputs) THEN PASSED
  ELSE FAILED

\* line 144 without the break
stops_grading_never(exec_outcome) == FALSE

\* line 144 with the break taken on FAILED alone
stops_grading_on_failed(exec_outcome) == exec_outcome = FAILED

\* line 144 with the loop going on after a timeout
stops_grading_unless_timeout(exec_outcome) ==
  exec_outcome # PASSED /\ exec_outcome # ERROR_PREFIX \o TIMEOUT_MSG

\* line 144: the loop stops after this verdict
stops_grading(exec_outcome) == exec_outcome # PASSED

\* lines 105-112: the verdict of one case when no version ran
unresolved_verdict(testcase, error) ==
  [input |-> preprocess_input(testcase.input), expected |-> testcase.output,
   actual |-> <<>>, error |-> error, exec_outcome |-> ERROR_PREFIX \o error,
   final_lang |-> None]

\* lines 103-112 with the error verdict given to the probed case alone
unresolved_results_first_case(cases, error) ==
  <<unresolved_verdict(cases[1], error)>>

\* lines 103-112
unresolved_results(cases, error) ==
  [k \in 1..Len(cases) |-> unresolved_verdict(cases[k], error)]

\* lines 137-143
graded_verdict(testcase, actual, error) ==
  [input |-> preprocess_input(testcase.input), expected |-> testcase.output,
   actual |-> actual, error |-> error,
   exec_outcome |-> verdict_of(actual, error, testcase.output)]

\* TextIOWrapper.write(source_code) with encoding='utf-8', line 71
Encodable(text) == \A k \in 1..Len(text) : text[k] # SURROGATE

(***************************************************************************)
(* main and count_passed_problems: the pure parts                          *)
(***************************************************************************)
\* range(6), line 257
NumCandidates == 6

\* line 217
HARD_BAR == 1501

\* line 218
NON_BAR == 2701

\* lines 210 and 270-271 with any() in the place of all()
pass_flag_any(verdicts) == \E k \in 1..Len(verdicts) : verdicts[k].exec_outcome = PASSED

\* lines 210 and 270-271: all(outcome["exec_outcome"] == "PASSED" for ...)
pass_flag(verdicts) == \A k \in 1..Len(verdicts) : verdicts[k].exec_outcome = PASSED

\* lines 181-186
evaluation_record(it, verdicts) ==
  [lang_cluster |-> "python", src_uid |-> it.src_uid, difficulty |-> it.difficulty,
   exec_outcome |-> verdicts]

\* line 213: the record is new
is_new(uids, record) == \A k \in 1..Len(uids) : uids[k] # record.src_uid

\* lines 209-215: one line of the results file
count_line(rd, record) ==
  IF pass_flag(record.exec_outcome) /\ is_new(rd[1], record)
  THEN <<Append(rd[1], record.src_uid), Append(rd[2], record.difficulty)>>
  ELSE rd

\* line 220: the test
is_easy(diff) == diff < HARD_BAR

\* line 221: the test
is_hard(diff) == HARD_BAR <= diff /\ diff < NON_BAR

\* line 220: sum(1 for diff in ... if diff < HARD_BAR)
count_easy(diffs) == Cardinality({k \in 1..Len(diffs) : is_easy(diffs[k])})

\* line 221: sum(1 for diff in ... if HARD_BAR <= diff < NON_BAR)
count_hard(diffs) == Cardinality({k \in 1..Len(diffs) : is_hard(diffs[k])})

(***************************************************************************)
(* State                                                                   *)
(***************************************************************************)
VARIABLES
  env,            \* the inputs: what the items, candidates and processes may be
  mpc,            \* main / count_passed_problems: where control is
  items_done,     \* main: items of inference_data already handled
  item,           \* main: the item of line 255
  i,              \* main: the candidate index of line 257
  solved,         \* main: line 256
  code_to_evaluate, \* main: lines 261-268, the submission as main built it
  results_file,   \* the lines written to results_path
  line,           \* count_passed_problems: lines of the file already read
  record_dict,    \* count_passed_problems: <<src_uids, difficulties>>
  E_count,        \* count_passed_problems: line 220
  H_count,        \* count_passed_problems: line 221
  pc,             \* run_python_code: where control is
  data,           \* run_python_code: the submission
  testcases,      \* run_python_code: the filtered test cases, line 59
  attempt,        \* run_python_code: position in tried_versions, line 77
  final_lang,     \* run_python_code: line 65
  success,        \* run_python_code: line 66
  actual_output,  \* run_python_code: stdout of the last Sandbox call
  error_output,   \* run_python_code: error text of the last Sandbox call
  results,        \* run_python_code: the verdict sequence
  id,             \* run_python_code: the loop index of line 116 (1-based)
  temp_file,      \* the file NamedTemporaryFile created for this call, or None
  temp_filename,  \* run_python_code: line 73, or None
  pending,        \* run_python_code: how the try block was left
  disk,           \* the temporary files that exist
  sandbox_calls,  \* the calls of execute_command made by this call
  outputs,        \* normalize_output: the texts it is given, one after the other
  normalized,     \* normalize_output: what it returned for each of them
  renormalized    \* normalize_output: what it returned for each of its results

main_vars == <<env, mpc, items_done, item, i, solved, code_to_evaluate, results_file>>

count_vars == <<line, record_dict, E_count, H_count>>

run_vars == <<pc, data, testcases, attempt, final_lang, success, actual_output,
              error_output, results, id, temp_file, temp_filename, pending,
              sandbox_calls>>

text_vars == <<outputs, normalized, renormalized>>

vars == <<main_vars, count_vars, run_vars, disk, text_vars>>

NoItem == [src_uid |-> "", difficulty |-> 0, testcases |-> <<>>]

NoData == [source_code |-> <<>>, lang |-> ""]

\* run_python_code is not running: its locals do not exist
RunIdle ==
  /\ pc = "idle" /\ data = NoData /\ testcases = <<>> /\ attempt = 0
  /\ final_lang = None /\ success = FALSE /\ actual_output = None
  /\ error_output = None /\ results = <<>> /\ id = 0 /\ temp_file = None
  /\ temp_filename = None /\ pending = "" /\ sandbox_calls = <<>>

\* count_passed_problems has not started
CountIdle == line = 0 /\ record_dict = <<<<>>, <<>>>> /\ E_count = 0 /\ H_count = 0

\* normalize_output is not called outside run_python_code
TextIdle == outputs = <<>> /\ normalized = <<>> /\ renormalized = <<>>

\* line 254: the results file is opened for writing
Init ==
  /\ env = DriverEnv
  /\ mpc = "next_item" /\ items_done = 0 /\ item = NoItem /\ i = 0
  /\ solved = FALSE /\ code_to_evaluate = NoData /\ results_file = <<>> /\ disk = {}
  /\ CountIdle /\ RunIdle /\ TextIdle

(***************************************************************************)
(* main, lines 254-290                                                     *)
(***************************************************************************)
\* after candidate i: the next candidate, or the end of the loop of line 257
AfterCandidate == IF i + 1 < NumCandidates THEN "next_candidate" ELSE "item_end"

\* lines 255-256: the next item of inference_data
StartItem ==
  /\ mpc = "next_item" /\ items_done < MaxItems
  /\ \E u \in env.uids, d \in env.difficulties, tcs \in SeqsUpTo(env.cases, MaxItemCases) :
       item' = [src_uid |-> u, difficulty |-> d, testcases |-> tcs]
  /\ solved' = FALSE /\ i' = 0 /\ mpc' = "next_candidate"
  /\ UNCHANGED <<text_vars, env, items_done, code_to_evaluate, results_file, count_vars, run_vars, disk>>

\* line 255: inference_data is exhausted; line 290
NoMoreItems ==
  /\ mpc = "next_item"
  /\ mpc' = "count"
  /\ UNCHANGED <<text_vars, env, items_done, item, i, solved, code_to_evaluate, results_file, count_vars, run_vars, disk>>

\* line 259: the key is missing or its text is empty
SkipCandidate ==
  /\ mpc = "next_candidate"
  /\ i' = i + 1 /\ mpc' = AfterCandidate
  /\ UNCHANGED <<text_vars, env, items_done, item, solved, code_to_evaluate, results_file, count_vars, run_vars, disk>>

\* lines 262 and 281-283: load_json_from_markdown yields None, indexing it raises
MalformedCandidate ==
  /\ mpc = "next_candidate"
  /\ i' = i + 1 /\ mpc' = AfterCandidate
  /\ UNCHANGED <<text_vars, env, items_done, item, solved, code_to_evaluate, results_file, count_vars, run_vars, disk>>

\* lines 261-269 and 177-178: evaluate_code calls run_python_code
CallEvaluate ==
  /\ mpc = "next_candidate"
  /\ \E l \in env.langs, src \in env.sources :
       /\ ~Encodable(src) => Cardinality(disk) < MaxWriteFaults
       /\ code_to_evaluate' = [source_code |-> src, lang |-> l]
  /\ data' = code_to_evaluate'
  /\ mpc' = "evaluating" /\ pc' = "filter"
  /\ UNCHANGED <<text_vars, env, items_done, item, i, solved, results_file, count_vars, disk,
                 testcases, attempt, final_lang, success, actual_output, error_output,
                 results, id, temp_file, temp_filename, pending, sandbox_calls>>

\* the submission is done with: the locals of run_python_code go out of scope
LeaveRun ==
  /\ code_to_evaluate' = NoData
  /\ pc' = "idle" /\ data' = NoData /\ testcases' = <<>> /\ attempt' = 0
  /\ final_lang' = None /\ success' = FALSE /\ actual_output' = None
  /\ error_output' = None /\ results' = <<>> /\ id' = 0 /\ temp_file' = None
  /\ temp_filename' = None /\ pending' = "" /\ sandbox_calls' = <<>>

\* lines 178-188 and 270-276 without the break of line 276
Returned_no_break ==
  /\ mpc = "evaluating" /\ pc = "returned"
  /\ LET evaluation_result == evaluation_record(item, results) IN
     IF pass_flag(evaluation_result.exec_outcome)
     THEN /\ solved' = TRUE
          /\ results_file' = Append(results_file, evaluation_result)
     ELSE UNCHANGED <<solved, results_file>>
  /\ i' = i + 1 /\ mpc' = AfterCandidate
  /\ LeaveRun
  /\ UNCHANGED <<text_vars, env, items_done, item, count_vars, disk>>

\* lines 178-188 and 270-276: run_python_code returned its verdicts
Returned ==
  /\ mpc = "evaluating" /\ pc = "returned"
  /\ LET evaluation_result == evaluation_record(item, results) IN
     IF pass_flag(evaluation_result.exec_outcome)
     THEN /\ solved' = TRUE
          /\ results_file' = Append(results_file, evaluation_result)
          /\ mpc' = "item_end" /\ i' = i
     ELSE /\ i' = i + 1 /\ mpc' = AfterCandidate
          /\ UNCHANGED <<solved, results_file>>
  /\ LeaveRun
  /\ UNCHANGED <<text_vars, env, items_done, item, count_vars, disk>>

\* lines 281-283: run_python_code raised
Caught ==
  /\ mpc = "evaluating" /\ pc = "raised"
  /\ i' = i + 1 /\ mpc' = AfterCandidate
  /\ LeaveRun
  /\ UNCHANGED <<text_vars, env, items_done, item, solved, results_file, count_vars, disk>>

\* lines 285-287
EndItem ==
  /\ mpc = "item_end"
  /\ items_done' = items_done + 1 /\ mpc' = "next_item"
  /\ UNCHANGED <<text_vars, env, item, i, solved, code_to_evaluate, results_file, count_vars, run_vars, disk>>

(***************************************************************************)
(* run_python_code, lines 48-149                                           *)
(***************************************************************************)
\* the name NamedTemporaryFile gives the file of this call: one no file has
FreshName ==
  LET n == CHOOSE m \in 0..Cardinality(disk) : <<"tmp", m, ".py">> \notin disk
  IN  <<"tmp", n, ".py">>

\* one call of execute_command, as the log keeps it
SandboxCall(version, k, phase, out) ==
  [command |-> <<interpreter(version), temp_filename>>,
   input_data |-> preprocess_input(testcases[k].input),
   version |-> version, case |-> k, phase |-> phase,
   actual_output |-> out[1], error_output |-> out[2]]

\* lines 51-66
Filter ==
  /\ pc = "filter"
  /\ testcases' = filter_testcases(item.testcases)
  /\ results' = <<>> /\ final_lang' = None /\ success' = FALSE
  /\ pc' = IF Len(testcases') = 0 THEN "returned" ELSE "tempfile"
  /\ UNCHANGED <<text_vars, main_vars, count_vars, disk, data, attempt, actual_output,
                 error_output, id, temp_file, temp_filename, pending, sandbox_calls>>

\* lines 69-73: the file is created, written and closed; it stays on disk
CreateTemp ==
  /\ pc = "tempfile" /\ Encodable(data.source_code)
  /\ temp_file' = FreshName /\ disk' = disk \cup {FreshName}
  /\ temp_filename' = FreshName
  /\ attempt' = 1 /\ pc' = "probe"
  /\ UNCHANGED <<text_vars, main_vars, count_vars, data, testcases, final_lang, success,
                 actual_output, error_output, results, id, pending, sandbox_calls>>

\* lines 69-71: the file is created, write raises UnicodeEncodeError, the with
\* block closes the file (delete=False) and the exception leaves the function
WriteFault ==
  /\ pc = "tempfile" /\ ~Encodable(data.source_code)
  /\ temp_file' = FreshName /\ disk' = disk \cup {FreshName}
  /\ pc' = "raised"
  /\ UNCHANGED <<text_vars, main_vars, count_vars, data, testcases, attempt, final_lang, success,
                 actual_output, error_output, results, id, temp_filename, pending,
                 sandbox_calls>>

\* lines 77-99: one turn of the loop over tried_versions
Probe ==
  /\ pc = "probe"
  /\ LET attempt_lang == tried_versions(data.lang)[attempt] IN
     \E out \in execute_command(env) :
       /\ sandbox_calls' = Append(sandbox_calls, SandboxCall(attempt_lang, 1, "probe", out))
       /\ actual_output' = out[1] /\ error_output' = out[2]
       /\ IF out[2] # <<>>
          THEN /\ IF attempt < Len(tried_versions(data.lang))
                  THEN attempt' = attempt + 1 /\ pc' = "probe"
                  ELSE attempt' = attempt /\ pc' = "unresolved"
               /\ UNCHANGED <<final_lang, success, data, id>>
          ELSE /\ final_lang' = attempt_lang /\ success' = TRUE
               /\ data' = [data EXCEPT !.lang = attempt_lang]
               /\ id' = 1 /\ pc' = "grade" /\ attempt' = attempt
  /\ UNCHANGED <<text_vars, main_vars, count_vars, disk, testcases, results, temp_file,
                 temp_filename, pending>>

\* lines 101-113: no version ran the first case
ResolutionFailed ==
  /\ pc = "unresolved" /\ ~success
  /\ results' = unresolved_results(testcases, error_output)
  /\ pending' = "return" /\ pc' = "finally"
  /\ UNCHANGED <<text_vars, main_vars, count_vars, disk, data, testcases, attempt, final_lang,
                 success, actual_output, error_output, id, temp_file, temp_filename,
                 sandbox_calls>>

\* lines 116-145: one turn of the grading loop
Grade ==
  /\ pc = "grade"
  /\ \E out \in execute_command(env) :
       LET verdict == graded_verdict(testcases[id], out[1], out[2]) IN
       /\ sandbox_calls' = Append(sandbox_calls, SandboxCall(final_lang, id, "grade", out))
       /\ actual_output' = out[1] /\ error_output' = out[2]
       /\ results' = Append(results, verdict)
       /\ IF stops_grading(verdict.exec_outcome) \/ id = Len(testcases)
          THEN pending' = "return" /\ pc' = "finally" /\ id' = id
          ELSE pending' = pending /\ pc' = "grade" /\ id' = id + 1
  /\ UNCHANGED <<text_vars, main_vars, count_vars, disk, data, testcases, attempt, final_lang,
                 success, temp_file, temp_filename>>

\* an exception inside the try block of lines 75-145 (print to a closed or
\* non-UTF-8 stdout, MemoryError)
Fault ==
  /\ pc \in {"probe", "unresolved", "grade"}
  /\ pending' = "raise" /\ pc' = "finally"
  /\ UNCHANGED <<text_vars, main_vars, count_vars, disk, data, testcases, attempt, final_lang,
                 success, actual_output, error_output, results, id, temp_file,
                 temp_filename, sandbox_calls>>

\* lines 146-149
Finally ==
  /\ pc = "finally"
  /\ disk' = disk \ {temp_filename}
  /\ pc' = IF pending = "return" THEN "returned" ELSE "raised"
  /\ UNCHANGED <<text_vars, main_vars, count_vars, data, testcases, attempt, final_lang, success,
                 actual_output, error_output, results, id, temp_file, temp_filename,
                 pending, sandbox_calls>>

(***************************************************************************)
(* count_passed_problems, lines 203-224                                    *)
(***************************************************************************)
\* lines 208-215: the next line of the file
CountLine ==
  /\ mpc = "count" /\ line < Len(results_file)
  /\ record_dict' = count_line(record_dict, results_file[line + 1])
  /\ line' = line + 1
  /\ UNCHANGED <<text_vars, main_vars, run_vars, disk, E_count, H_count>>

\* lines 217-224: the file is read to its end
CountReport ==
  /\ mpc = "count" /\ line = Len(results_file)
  /\ E_count' = count_easy(record_dict[2])
  /\ H_count' = count_hard(record_dict[2])
  /\ mpc' = "done"
  /\ UNCHANGED <<text_vars, env, items_done, item, i, solved, code_to_evaluate, results_file, run_vars, disk, line,
                 record_dict>>

(***************************************************************************)
(* The driver: main grades the items, then counts the results file         *)
(***************************************************************************)
Next ==
  \/ StartItem \/ NoMoreItems \/ SkipCandidate \/ MalformedCandidate \/ CallEvaluate
  \/ Filter \/ CreateTemp \/ WriteFault \/ Probe \/ ResolutionFailed \/ Grade
  \/ Fault \/ Finally \/ Returned \/ Caught \/ EndItem \/ CountLine \/ CountReport

Spec == Init /\ [][Next]_vars

(***************************************************************************)
(* One submission: evaluate_code has just been called for the first        *)
(* candidate of an item (line 269); the specification ends when main has   *)
(* handled what run_python_code returned or raised.                        *)
(***************************************************************************)
InitSubmission ==
  /\ env = SubmissionEnv
  /\ mpc = "evaluating" /\ items_done = 0 /\ i = 0 /\ solved = FALSE
  /\ results_file = <<>> /\ disk = {} /\ CountIdle /\ TextIdle
  /\ item \in {[src_uid |-> u, difficulty |-> d, testcases |-> tcs] :
                 u \in env.uids, d \in env.difficulties,
                 tcs \in SeqsUpTo(env.cases, MaxCases)}
  /\ code_to_evaluate \in
       {[source_code |-> src, lang |-> l] : src \in env.sources, l \in env.langs}
  /\ data = code_to_evaluate
  /\ pc = "filter" /\ testcases = <<>> /\ attempt = 0
  /\ final_lang = None /\ success = FALSE /\ actual_output = None
  /\ error_output = None /\ results = <<>> /\ id = 0 /\ temp_file = None
  /\ temp_filename = None /\ pending = "" /\ sandbox_calls = <<>>

NextSubmission ==
  \/ Filter \/ CreateTemp \/ WriteFault \/ Probe \/ ResolutionFailed \/ Grade
  \/ Fault \/ Finally \/ Returned \/ Caught

SpecSubmission == InitSubmission /\ [][NextSubmission]_vars

\* where control is in main and in run_python_code
control == <<mpc, pc, attempt, id>>

\* control moves while main evaluates the submission
ControlMoves ==
  /\ mpc = "evaluating"
  /\ mpc' \in {"evaluating", "next_candidate", "item_end"}
  /\ pc' \in {"idle", "filter", "tempfile", "probe", "unresolved", "grade", "finally",
              "returned", "raised"}
  /\ attempt' \in 0..2 /\ id' \in 0..MaxCases

\* run_python_code and main are sequential code and every call of
\* execute_command comes back (subprocess.run is given a timeout, line 162):
\* while the submission is evaluated control does not stay where it is.  Every
\* step of NextSubmission moves control, and one can be taken wherever
\* mpc = "evaluating".
SpecSubmissionFair == SpecSubmission /\ WF_control(ControlMoves)

(***************************************************************************)
(* The filter alone, on test cases around the truncation mark              *)
(***************************************************************************)
InitFilter ==
  /\ env = FilterEnv
  /\ mpc = "evaluating" /\ items_done = 0 /\ i = 0 /\ solved = FALSE
  /\ results_file = <<>> /\ disk = {} /\ CountIdle /\ TextIdle
  /\ item \in {[src_uid |-> u, difficulty |-> d, testcases |-> tcs] :
                 u \in env.uids, d \in env.difficulties,
                 tcs \in SeqsUpTo(env.cases, MaxCases)}
  /\ code_to_evaluate \in
       {[source_code |-> src, lang |-> l] : src \in env.sources, l \in env.langs}
  /\ data = code_to_evaluate
  /\ pc = "filter" /\ testcases = <<>> /\ attempt = 0
  /\ final_lang = None /\ success = FALSE /\ actual_output = None
  /\ error_output = None /\ results = <<>> /\ id = 0 /\ temp_file = None
  /\ temp_filename = None /\ pending = "" /\ sandbox_calls = <<>>

NextFilter == Filter

SpecFilter == InitFilter /\ [][NextFilter]_vars

(***************************************************************************)
(* count_passed_problems alone, on any results file                        *)
(***************************************************************************)
\* the verdict sequences a line of the file may hold: none, all passed (one or
\* two), a failure after a pass, an error
VerdictSeqs ==
  LET passed == graded_verdict(PlainCase, <<"a">>, <<>>)
      failed == graded_verdict(PlainCase, <<"b">>, <<>>)
      error  == graded_verdict(PlainCase, None, TIMEOUT_MSG)
  IN  {<<>>, <<passed>>, <<passed, passed>>, <<passed, failed>>, <<error>>}

\* the lines a results file may hold
Records(e) ==
  {evaluation_record([src_uid |-> u, difficulty |-> d, testcases |-> <<>>], vs) :
     u \in e.uids, d \in e.difficulties, vs \in VerdictSeqs}

\* line 205, with the file open at its first line
InitAggregate ==
  /\ env = AggregateEnv
  /\ mpc = "count" /\ items_done = 0 /\ item = NoItem /\ i = 0 /\ solved = FALSE
  /\ code_to_evaluate = NoData
  /\ results_file \in SeqsUpTo(Records(env), MaxRecords)
  /\ disk = {} /\ CountIdle /\ RunIdle /\ TextIdle

NextAggregate == CountLine \/ CountReport

SpecAggregate == InitAggregate /\ [][NextAggregate]_vars

(***************************************************************************)
(* normalize_output alone: a text written twice, with line feeds and no    *)
(* trailing whitespace, and with other line breaks and trailing            *)
(* whitespace; each writing is normalized, and each result once more       *)
(***************************************************************************)
\* lines of a text given to normalize_output
MaxLines == 2

\* n zeros
Zeros(n) == [k \in 1..n |-> "0"]

\* tokens: a word, numbers that six places keep, numbers of magnitude 1e-7 and
\* 6e-7 of either sign (they round to zero and to one millionth), zero and
\* 1e-10 of either sign (below 1e-9)
Tokens ==
  {<<"a">>, <<"-", "1">>, <<"1", ".", "9", "9", "9", "9", "9", "9", "6">>}
    \cup {sign \o <<"0", ".">> \o frac :
            sign \in {<<>>, <<"-">>},
            frac \in {Zeros(6) \o <<"1">>, Zeros(6) \o <<"6">>, Zeros(6),
                      Zeros(9) \o <<"1">>}}

\* lines: empty, one token, a token between spaces and before a word
LineTexts ==
  {<<>>} \cup Tokens
    \cup {<<" ">> \o t \o <<" ", " ", "a">> :
            t \in {<<"a">>, <<"-", "0", ".">> \o Zeros(6) \o <<"1">>}}

\* the ways a line break is written
LineBreaks == {<<"\n">>, <<"\r", "\n">>, <<"\r">>}

\* the whitespace that may follow each line
Trails == {<<>>, <<" ">>}

RECURSIVE Written(_, _, _)
\* the text of the lines, each followed by trail, with breaks between them
Written(lines, breaks, trail) ==
  IF Len(lines) = 1 THEN lines[1] \o trail
  ELSE lines[1] \o trail \o breaks[1] \o Written(Tail(lines), Tail(breaks), trail)

\* the lines written with line feeds and nothing after a line
WrittenPlain(lines) ==
  Written(lines, [k \in 1..(Len(lines) - 1) |-> <<"\n">>], <<>>)

\* the sequences over S of length n
SeqsOf(S, n) == {q \in SeqsUpTo(S, n) : Len(q) = n}

NormalizeEnv ==
  [cases        |-> {},
   uids         |-> {},
   difficulties |-> {},
   langs        |-> {},
   sources      |-> {},
   stdout       |-> {},
   stderr       |-> {},
   exceptions   |-> {}]

InitNormalize ==
  /\ env = NormalizeEnv
  /\ mpc = "idle" /\ items_done = 0 /\ item = NoItem /\ i = 0 /\ solved = FALSE
  /\ code_to_evaluate = NoData /\ results_file = <<>>
  /\ disk = {} /\ CountIdle /\ RunIdle
  /\ \E n \in 1..MaxLines :
       outputs \in {<<WrittenPlain(ls), Written(ls, bs, tr)>> :
                      ls \in SeqsOf(LineTexts, n), bs \in SeqsOf(LineBreaks, n - 1),
                      tr \in Trails}
  /\ normalized = <<>> /\ renormalized = <<>>

\* lines 43-46, for the next of the texts
Normalize ==
  /\ Len(normalized) < Len(outputs)
  /\ normalized' = Append(normalized, normalize_output(outputs[Len(normalized) + 1]))
  /\ UNCHANGED <<main_vars, count_vars, run_vars, disk, outputs, renormalized>>

\* lines 43-46, for the next of the results
Renormalize ==
  /\ Len(renormalized) < Len(normalized)
  /\ renormalized' =
       Append(renormalized, normalize_output(normalized[Len(renormalized) + 1]))
  /\ UNCHANGED <<main_vars, count_vars, run_vars, disk, outputs, normalized>>

NextNormalize == Normalize \/ Renormalize

SpecNormalize == InitNormalize /\ [][NextNormalize]_vars

(***************************************************************************)
(* Properties                                                              *)
(***************************************************************************)
\* the calls of execute_command made by the probe loop, and by the grading loop
IsProbe(call) == call.phase = "probe"

IsGrade(call) == call.phase = "grade"

ProbeCalls == SelectSeq(sandbox_calls, IsProbe)

GradeCalls == SelectSeq(sandbox_calls, IsGrade)

\* the label starts with "ERROR: "
IsErrorLabel(label) ==
  Len(label) >= Len(ERROR_PREFIX) /\ SubSeq(label, 1, Len(ERROR_PREFIX)) = ERROR_PREFIX

\* the text holds three dots in a row
HasThreeDots(text) ==
  \E p \in 1..(Len(text) - 2) : text[p] = "." /\ text[p + 1] = "." /\ text[p + 2] = "."

\* no input line and no expected output of the case holds three dots in a row
Gradable(testcase) ==
  /\ \A k \in 1..Len(testcase.input) : ~HasThreeDots(testcase.input[k])
  /\ \A k \in 1..Len(testcase.output) : ~HasThreeDots(testcase.output[k])

\* run_python_code has returned a verdict sequence that failed resolution made
ResolutionHasFailed == pc = "returned" /\ ~success /\ Len(testcases) > 0

\* the case did not pass: its error text is not empty or its output matches no
\* expected output after normalization
NotPassed(verdict) ==
  verdict.error # <<>> \/ ~matches(verdict.actual, verdict.expected)

\* the verdicts are those of the first cases of the filtered list, in order
InCaseOrder ==
  /\ Len(results) <= Len(testcases)
  /\ \A k \in 1..Len(results) :
       /\ results[k].input = preprocess_input(testcases[k].input)
       /\ results[k].expected = testcases[k].output

\* C1 (as claimed): in every verdict sequence run_python_code returns, whether
\* resolution succeeded or failed, every verdict but the last is PASSED: a FAILED
\* or ERROR verdict is the last element.
C1_NonPassedIsLast ==
  pc = "returned" =>
    \A k \in 1..(Len(results) - 1) : results[k].exec_outcome = PASSED

\* C1 (amended): in every verdict sequence run_python_code returns after a
\* successful resolution every verdict but the last is PASSED; after a failed
\* resolution the sequence holds one ERROR verdict for each filtered case, so
\* ERROR verdicts follow one another.
C1_NonPassedIsLastOnceResolved ==
  /\ (pc = "returned" /\ success) =>
       \A k \in 1..(Len(results) - 1) : results[k].exec_outcome = PASSED
  /\ ResolutionHasFailed =>
       /\ Len(results) = Len(testcases)
       /\ \A k \in 1..Len(results) : IsErrorLabel(results[k].exec_outcome)

\* a resolved submission whose second or later verdict is not PASSED
C1_Witness ==
  /\ pc = "returned" /\ success /\ Len(results) >= 2
  /\ results[Len(results)].exec_outcome # PASSED

\* every test case of the item holds the truncation mark
FilterRemovesAll(it) ==
  /\ Len(it.testcases) > 0
  /\ \A k \in 1..Len(it.testcases) : ~Gradable(it.testcases[k])

\* C2: when the filter removes every test case, run_python_code returns an empty
\* verdict sequence, having created no temporary file and called the Sandbox not
\* once, and main neither marks the item solved nor writes a record for it.
C2_EmptyFilterIsUnsolved ==
  /\ (pc = "returned" /\ FilterRemovesAll(item)) =>
       /\ results = <<>> /\ temp_file = None /\ disk = {} /\ sandbox_calls = <<>>
  /\ (mpc \in {"next_candidate", "item_end"} /\ FilterRemovesAll(item)) =>
       /\ ~solved /\ results_file = <<>>

\* C4: once resolution has succeeded, if the first case that does not pass is
\* the k-th of the filtered cases, the returned sequence has exactly k verdicts,
\* in case order: the first k-1 are PASSED, the k-th is FAILED or "ERROR: ...",
\* and the grading loop has run the Sandbox for the cases 1..k and no other; if
\* every case passes there is one PASSED verdict for each.
C4_StopsAtFirstFailure ==
  (pc = "returned" /\ success) =>
    /\ InCaseOrder
    /\ \A k \in 1..Len(results) :
         IF NotPassed(results[k])
         THEN /\ k = Len(results)
              /\ results[k].exec_outcome = FAILED
                   \/ IsErrorLabel(results[k].exec_outcome)
         ELSE results[k].exec_outcome = PASSED
    /\ (\A k \in 1..Len(results) : ~NotPassed(results[k])) =>
         Len(results) = Len(testcases)
    /\ Len(GradeCalls) = Len(results)
    /\ \A k \in 1..Len(results) :
         /\ GradeCalls[k].case = k
         /\ results[k].actual = GradeCalls[k].actual_output
         /\ results[k].error = GradeCalls[k].error_output

\* three filtered cases, the second is the first that does not pass: two verdicts
C4_Witness ==
  /\ pc = "returned" /\ success /\ Len(testcases) = 3 /\ Len(results) = 2
  /\ ~NotPassed(results[1]) /\ NotPassed(results[2])
  /\ results[2].exec_outcome = FAILED

\* C5: when the probe of the first filtered case reports error text under both
\* candidates, run_python_code calls the Sandbox no more and returns one verdict
\* for each filtered case, in order, each with exec_outcome "ERROR: <e>" and
\* error <e>, <e> being the error text of the second probe.
C5_UnresolvedAllError ==
  ( /\ pc = "returned" /\ Len(sandbox_calls) >= 2
    /\ IsProbe(sandbox_calls[1]) /\ sandbox_calls[1].error_output # <<>>
    /\ IsProbe(sandbox_calls[2]) /\ sandbox_calls[2].error_output # <<>> ) =>
    LET e == sandbox_calls[2].error_output IN
    /\ Len(sandbox_calls) = 2
    /\ Len(results) = Len(testcases)
    /\ InCaseOrder
    /\ \A k \in 1..Len(results) :
         results[k].exec_outcome = ERROR_PREFIX \o e /\ results[k].error = e

\* both probes failed, with different error texts, on two or more filtered cases
C5_Witness ==
  /\ ResolutionHasFailed /\ Len(testcases) >= 2 /\ Len(results) = Len(testcases)
  /\ Len(sandbox_calls) = 2
  /\ sandbox_calls[1].error_output # sandbox_calls[2].error_output
  /\ results[2].error = sandbox_calls[2].error_output

\* the two candidates of the claim: the declared variant, then the other one
Candidates ==
  LET declared == code_to_evaluate.lang IN
  <<declared, IF declared = "python3" THEN "python2" ELSE "python3">>

\* C6: the probes run the candidates in the order declared variant, other
\* variant, each once and on the input of the first filtered case; a candidate is
\* probed only after every earlier one reported error text; the resolved variant
\* is that of the probe that reported none, and it is the variant of every call
\* of the grading loop, which starts after the probes.
C6_FirstSuccessWins ==
  LET probes == ProbeCalls
      grades == GradeCalls
  IN  /\ Len(probes) <= 2
      /\ sandbox_calls = probes \o grades
      /\ \A k \in 1..Len(probes) :
           /\ probes[k].version = Candidates[k]
           /\ probes[k].command = <<interpreter(Candidates[k]), temp_filename>>
           /\ probes[k].case = 1
           /\ probes[k].input_data = preprocess_input(testcases[1].input)
      /\ \A k \in 1..(Len(probes) - 1) : probes[k].error_output # <<>>
      /\ success =>
           /\ Len(probes) >= 1
           /\ probes[Len(probes)].error_output = <<>>
           /\ final_lang = probes[Len(probes)].version
      /\ ~success => Len(grades) = 0
      /\ \A k \in 1..Len(grades) :
           /\ grades[k].version = final_lang
           /\ grades[k].command = <<interpreter(final_lang), temp_filename>>

\* the declared variant failed its probe, the other one ran and graded two cases
C6_Witness ==
  /\ pc = "returned" /\ success /\ Len(ProbeCalls) = 2 /\ Len(GradeCalls) >= 2
  /\ final_lang # code_to_evaluate.lang /\ final_lang = Candidates[2]

\* C7: whenever run_python_code has created the temporary file, the file does
\* not exist when run_python_code exits, by return or by exception, also when the
\* exception came from writing the source code into the file.
C7_TempFileRemoved ==
  (pc \in {"returned", "raised"} /\ temp_file # None) => temp_file \notin disk

\* C10: the filtered list holds exactly the cases in which no input line and no
\* expected output holds "...", in their original order.
C10_FilterKeepsGradable ==
  pc # "filter" => testcases = SelectSeq(item.testcases, Gradable)

\* three cases, the middle one truncated: the other two are kept, in order
C10_Witness ==
  /\ pc # "filter" /\ Len(item.testcases) = 3 /\ Len(testcases) = 2
  /\ ~Gradable(item.testcases[2])
  /\ testcases[1] = item.testcases[1] /\ testcases[2] = item.testcases[3]
  /\ testcases[1] # testcases[2]

\* the record is solved: its verdict sequence is not empty and all PASSED
Solved(record) ==
  /\ Len(record.exec_outcome) > 0
  /\ \A k \in 1..Len(record.exec_outcome) :
       record.exec_outcome[k].exec_outcome = PASSED

\* the lines of the file count_passed_problems has read
LinesRead == SubSeq(results_file, 1, line)

\* the src_uid is in the counted set
Counted(u) == \E p \in 1..Len(record_dict[1]) : record_dict[1][p] = u

\* line k is the first solved record of its src_uid among the lines read
FirstSolved(k) ==
  /\ Solved(LinesRead[k])
  /\ \A j \in 1..(k - 1) :
       ~(LinesRead[j].src_uid = LinesRead[k].src_uid /\ Solved(LinesRead[j]))

\* C3: count_passed_problems counts a src_uid iff a record of it with a
\* non-empty, all-PASSED exec_outcome sequence has been read; a record with an
\* empty exec_outcome sequence is not counted.
C3_CountedIffSolved ==
  \A u \in env.uids :
    Counted(u) <=> \E k \in 1..Len(LinesRead) :
                     LinesRead[k].src_uid = u /\ Solved(LinesRead[k])

\* C8: after any lines read, each src_uid is in the counted set at most once,
\* the difficulty recorded for it is that of its first solved record, and the
\* Easy and Hard counts are those of the first solved records, whatever solved
\* records of the same src_uid follow.
C8_FirstSolvedDifficulty ==
  /\ Len(record_dict[1]) = Len(record_dict[2])
  /\ \A p, q \in 1..Len(record_dict[1]) :
       record_dict[1][p] = record_dict[1][q] => p = q
  /\ \A p \in 1..Len(record_dict[1]) :
       \E k \in 1..Len(LinesRead) :
         /\ FirstSolved(k)
         /\ LinesRead[k].src_uid = record_dict[1][p]
         /\ LinesRead[k].difficulty = record_dict[2][p]
  /\ mpc = "done" =>
       /\ E_count = Cardinality({k \in 1..Len(LinesRead) :
                      FirstSolved(k) /\ LinesRead[k].difficulty < 1501})
       /\ H_count = Cardinality({k \in 1..Len(LinesRead) :
                      /\ FirstSolved(k)
                      /\ 1501 <= LinesRead[k].difficulty
                      /\ LinesRead[k].difficulty < 2701})

\* C9: in the report each counted problem of difficulty d adds one to Easy iff
\* d < 1501 and one to Hard iff 1501 <= d < 2701, and to neither iff d >= 2701,
\* so that Easy + Hard is at most the number of distinct solved src_uids.
C9_TierBoundaries ==
  mpc = "done" =>
    /\ E_count = Cardinality({p \in 1..Len(record_dict[2]) : record_dict[2][p] < 1501})
    /\ H_count = Cardinality({p \in 1..Len(record_dict[2]) :
                   1501 <= record_dict[2][p] /\ record_dict[2][p] < 2701})
    /\ E_count + H_count <=
         Cardinality({LinesRead[k].src_uid : k \in {j \in 1..Len(LinesRead) :
                                                     Solved(LinesRead[j])}})

\* C11: normalize_output is idempotent: normalizing a result of normalize_output
\* gives that result back, also for a text with a negative number of magnitude
\* at least 1e-9 that six decimal places render as zero.
C11_Idempotent ==
  \A k \in 1..Len(renormalized) : renormalized[k] = normalized[k]

\* C18: two texts that differ only in how each line break is written (LF, CRLF
\* or a lone CR) and in the whitespace that ends their lines normalize to the
\* same text, so to the same number of lines.
C18_LineEndingsUnified ==
  Len(normalized) = 2 => normalized[1] = normalized[2]

\* the call of execute_command ended in subprocess.TimeoutExpired
IsTimeout(call) == call.actual_output = None /\ call.error_output = TIMEOUT_MSG

\* the verdict of a case whose run timed out
IsTimeoutVerdict(verdict) ==
  /\ IsErrorLabel(verdict.exec_outcome)
  /\ Contains(TIMEOUT_MSG, verdict.exec_outcome)
  /\ verdict.exec_outcome = ERROR_PREFIX \o TIMEOUT_MSG
  /\ verdict.error = TIMEOUT_MSG

\* C12 (as claimed): whenever a run of the program on a test case times out,
\* that run is the last call of the Sandbox for the submission (no later case is
\* run, the case is not run again), and in the returned sequence the verdict of
\* that case is the last one, labelled "ERROR: " followed by the timeout message.
C12_TimeoutStopsGrading ==
  \A j \in 1..Len(sandbox_calls) :
    IsTimeout(sandbox_calls[j]) =>
      /\ j = Len(sandbox_calls)
      /\ pc = "returned" =>
           /\ Len(results) = sandbox_calls[j].case
           /\ IsTimeoutVerdict(results[sandbox_calls[j].case])

\* C12 (amended): whenever a run of the grading loop times out on a case, that
\* run is the last call of the Sandbox for the submission and the only run of
\* the grading loop on that case, and the verdict of the case is the last of the
\* sequence, labelled "ERROR: " followed by the timeout message.  A probe that
\* times out is a failed candidate: it is followed by the probe of the other
\* candidate on the same case, or it was the second probe and every filtered
\* case gets the timeout verdict.
C12_TimeoutStopsGradingLoop ==
  \A j \in 1..Len(sandbox_calls) :
    IsTimeout(sandbox_calls[j]) =>
      IF IsGrade(sandbox_calls[j])
      THEN /\ j = Len(sandbox_calls)
           /\ Cardinality({g \in 1..Len(GradeCalls) :
                             GradeCalls[g].case = sandbox_calls[j].case}) = 1
           /\ Len(results) = sandbox_calls[j].case
           /\ IsTimeoutVerdict(results[sandbox_calls[j].case])
           /\ pc \in {"finally", "returned", "raised"}
      ELSE /\ j <= 2
           /\ j < Len(sandbox_calls) =>
                /\ j = 1 /\ IsProbe(sandbox_calls[2])
                /\ sandbox_calls[2].version = Candidates[2]
                /\ sandbox_calls[2].case = 1
           /\ (j = 2 /\ pc = "returned") =>
                /\ Len(results) = Len(testcases)
                /\ \A k \in 1..Len(results) : IsTimeoutVerdict(results[k])

\* three filtered cases, the run of the second timed out in the grading loop:
\* two verdicts, the Sandbox was not called for the third case
C12_Witness ==
  /\ pc = "returned" /\ success /\ Len(testcases) = 3 /\ Len(results) = 2
  /\ IsTimeout(sandbox_calls[Len(sandbox_calls)])
  /\ IsGrade(sandbox_calls[Len(sandbox_calls)])
  /\ results[1].exec_outcome = PASSED /\ IsTimeoutVerdict(results[2])

\* main takes back a verdict sequence from run_python_code, which graded at
\* least one case
GradedReturns ==
  mpc = "evaluating" /\ pc = "returned" /\ Len(testcases) > 0 /\ pc' = "idle"

\* C13: for every submission that was graded and has at least one gradable
\* case, main writes exactly one record, that of the submission, to the results
\* file, whatever the verdicts are; the file changes at no other step but the
\* return of a submission, and then by one record.
C13_OneRecordPerGraded ==
  [][ /\ GradedReturns =>
           results_file' = Append(results_file, evaluation_record(item, results))
      /\ results_file' # results_file =>
           /\ mpc = "evaluating" /\ pc = "returned" /\ pc' = "idle"
           /\ Len(results_file') = Len(results_file) + 1 ]_vars

\* the run of the k-th filtered case in the grading loop ended with empty error
\* text and an output that matches an expected output after normalization
CasePassed(k) ==
  /\ k <= Len(GradeCalls) /\ GradeCalls[k].case = k
  /\ GradeCalls[k].error_output = <<>>
  /\ matches(GradeCalls[k].actual_output, testcases[k].output)

\* C14: for a submission with n >= 1 filtered cases, the all-PASSED test of main
\* and count_passed_problems holds of the returned verdict sequence iff the
\* sequence has exactly n verdicts and each of the n cases ran with empty error
\* text and a normalized match; a shorter sequence is never all-PASSED; main
\* marks the item solved, and writes the record, in that case alone.
C14_AllPassedIffComplete ==
  /\ (pc = "returned" /\ Len(testcases) >= 1) =>
       /\ pass_flag(results) <=>
            /\ Len(results) = Len(testcases)
            /\ \A k \in 1..Len(testcases) : CasePassed(k)
       /\ Len(results) < Len(testcases) => ~pass_flag(results)
       /\ pass_flag(evaluation_record(item, results).exec_outcome) <=> pass_flag(results)
  /\ (mpc # "evaluating" /\ Len(filter_testcases(item.testcases)) >= 1) =>
       /\ solved <=> Len(results_file) = 1
       /\ \A r \in 1..Len(results_file) :
            /\ Len(results_file[r].exec_outcome) = Len(filter_testcases(item.testcases))
            /\ pass_flag(results_file[r].exec_outcome)

\* three filtered cases, each with a PASSED verdict: main will mark the item
\* solved
C14_Witness ==
  /\ pc = "returned" /\ Len(testcases) = 3 /\ Len(results) = 3
  /\ pass_flag(results) /\ \A k \in 1..3 : CasePassed(k)

\* the output equals the k-th expected output of the case after normalization
MatchesExpected(actual, testcase, k) ==
  normalize_output(actual) = normalize_output(testcase.output[k])

\* C15: in the grading loop the verdict of a case is PASSED iff the error text
\* of its run is empty and the normalized stdout equals the normalization of at
\* least one expected output; it is "ERROR: <stderr>" whenever the error text is
\* not empty, also when stdout matches; otherwise it is FAILED.
C15_VerdictLabels ==
  success =>
    /\ Len(results) = Len(GradeCalls)
    /\ \A k \in 1..Len(results) :
         LET call  == GradeCalls[k]
             label == results[k].exec_outcome
             match == \E e \in 1..Len(testcases[k].output) :
                        MatchesExpected(call.actual_output, testcases[k], e)
         IN  /\ call.case = k
             /\ label = PASSED <=> (call.error_output = <<>> /\ match)
             /\ call.error_output # <<>> => label = ERROR_PREFIX \o call.error_output
             /\ (call.error_output = <<>> /\ ~match) => label = FAILED

\* a case passed on its second expected output alone, and the next case got an
\* ERROR verdict although its stdout matches an expected output
C15_Witness ==
  /\ pc = "returned" /\ success /\ Len(results) = 2
  /\ Len(testcases[1].output) = 2
  /\ ~MatchesExpected(results[1].actual, testcases[1], 1)
  /\ MatchesExpected(results[1].actual, testcases[1], 2)
  /\ results[1].exec_outcome = PASSED
  /\ results[2].error # <<>> /\ results[2].actual # None
  /\ matches(results[2].actual, testcases[2].output)
  /\ IsErrorLabel(results[2].exec_outcome)

\* C16: grading one submission ends (run_python_code returns its verdicts, or
\* lets a fault propagate) and it calls the Sandbox at most n + 2 times for n
\* filtered cases: at most two probes, then at most one run of each filtered
\* case, in order, none of them repeated; every step moves control on.
C16_TerminatesWithinBound ==
  /\ [](/\ Len(ProbeCalls) <= 2
        /\ sandbox_calls = ProbeCalls \o GradeCalls
        /\ Len(GradeCalls) <= Len(testcases)
        /\ \A g \in 1..Len(GradeCalls) : GradeCalls[g].case = g
        /\ Len(sandbox_calls) <= Len(testcases) + 2)
  /\ <>(pc \in {"returned", "raised"})
  /\ [][NextSubmission => control' # control]_vars

\* three filtered cases and five calls: the first probe failed, the second ran,
\* each case was graded once
C16_Witness ==
  /\ pc = "returned" /\ Len(testcases) = 3 /\ Len(sandbox_calls) = 5
  /\ Len(ProbeCalls) = 2 /\ Len(GradeCalls) = 3

\* the process of the call ran to its end and wrote nothing but whitespace to
\* stderr
CompletedClean(call) ==
  \E out \in env.stdout, err \in env.stderr :
    Strip(err) = <<>> /\ call.actual_output = Strip(out)

\* C17: execute_command hands a pair back for every call and control goes on in
\* run_python_code: after a timeout or an exception the pair is (None, non-empty
\* error text).  So the error text is empty only if the process ran to its end
\* with empty trimmed stderr, and no verdict that normalize_output took part in
\* (PASSED or FAILED) has None as its actual output.
C17_ExecuteCommandNeverRaises ==
  /\ [](/\ \A j \in 1..Len(sandbox_calls) :
             LET call == sandbox_calls[j] IN
             /\ call.error_output # None
             /\ call.actual_output = None => call.error_output # <<>>
             /\ call.error_output = <<>> =>
                  call.actual_output # None /\ CompletedClean(call)
        /\ \A k \in 1..Len(results) :
             results[k].exec_outcome \in {PASSED, FAILED} =>
               results[k].error = <<>> /\ results[k].actual # None)
  /\ [][(pc \in {"probe", "grade"} /\ sandbox_calls' # sandbox_calls) =>
          /\ Len(sandbox_calls') = Len(sandbox_calls) + 1
          /\ actual_output' = sandbox_calls'[Len(sandbox_calls')].actual_output
          /\ error_output' = sandbox_calls'[Len(sandbox_calls')].error_output
          /\ pc' \in {"probe", "unresolved", "grade", "finally"}
          /\ pending' # "raise"]_vars

\* subprocess.run raised an exception with an empty text while the second case
\* was graded: the verdict is "ERROR: Error: " and run_python_code returned
C17_Witness ==
  /\ pc = "returned" /\ success /\ Len(results) = 2
  /\ sandbox_calls[Len(sandbox_calls)].actual_output = None
  /\ sandbox_calls[Len(sandbox_calls)].error_output = EXC_PREFIX
  /\ results[2].exec_outcome = ERROR_PREFIX \o EXC_PREFIX
  /\ results[1].exec_outcome = PASSED

\* C19: for every declared variant string the probes run the declared variant,
\* then the other known variant, and when both are run they are run with two
\* different interpreter commands: no interpreter is probed twice for one
\* submission, also when the declared string is neither "python2" nor
\* "python3".
C19_TwoDistinctInterpreters ==
  /\ \A k \in 1..Len(ProbeCalls) : ProbeCalls[k].version = Candidates[k]
  /\ Candidates[2] \in {"python2", "python3"} /\ Candidates[2] # Candidates[1]
  /\ \A j, k \in 1..Len(ProbeCalls) :
       j # k => ProbeCalls[j].command[1] # ProbeCalls[k].command[1]

\* main takes back what run_python_code returned or raised for candidate i
CandidateEnds == mpc = "evaluating" /\ pc \in {"returned", "raised"} /\ pc' = "idle"

\* candidate i ran every gradable case of the item with a PASSED verdict
CandidatePassed == pc = "returned" /\ pass_flag(results)

\* C20: for each item main takes the candidates program_synthesis_0..5 in index
\* order and runs one only while the item is unsolved; at the first candidate
\* whose verdicts are all PASSED it marks the item solved, writes the item's one
\* record and runs no later candidate; after a candidate with a FAILED or ERROR
\* verdict or an exception it writes nothing and goes on with the next candidate
\* (after the sixth, with the next item); an item ends unsolved only after all
\* six candidates were taken and none passed.
C20_FirstPassingCandidateWins ==
  /\ [](/\ solved => mpc \in {"item_end", "next_item", "count", "done"}
        /\ (mpc = "item_end" /\ ~solved) => i = NumCandidates
        /\ mpc \in {"next_candidate", "evaluating"} => i < NumCandidates)
  /\ [][/\ i' # i => (i' = i + 1 \/ (i' = 0 /\ mpc = "next_item"))
        /\ (mpc = "next_candidate" /\ mpc' = "evaluating") => (~solved /\ i' = i)
        /\ (CandidateEnds /\ CandidatePassed) =>
             /\ solved' /\ mpc' = "item_end" /\ i' = i
             /\ results_file' = Append(results_file, evaluation_record(item, results))
        /\ (CandidateEnds /\ ~CandidatePassed) =>
             /\ ~solved' /\ results_file' = results_file /\ i' = i + 1
             /\ mpc' = IF i' < NumCandidates THEN "next_candidate" ELSE "item_end"
        /\ results_file' # results_file => (~solved /\ solved')
        /\ (solved /\ ~solved') => mpc = "next_item"]_vars

\* the second item was solved by a candidate after its first: two records
C20_Witness ==
  /\ mpc = "item_end" /\ solved /\ i >= 1 /\ items_done = 1
  /\ Len(results_file) = 2 /\ Len(results_file[2].exec_outcome) >= 1

====
